---- MODULE Spec2Model ----
\* Model of src/utp_bufferevent.c: the bridge (utp_bufferevent) between a
\* uTP socket ("Transport A", field utp) and a libevent bufferevent
\* ("Transport B", field bev).
\*
\* Buffers are modelled by their length in bytes.  evbuffers are FIFO: the
\* chunk handed to utp_write is always the first len bytes of the input
\* buffer, evbuffer_drain removes bytes from the front and bufferevent_write
\* appends at the back, so a length together with the log of the calls made
\* determines which bytes went where.
\*
\* The two libraries are the environment.  What is assumed of them:
\*  - libevent: a new socket bufferevent has EV_WRITE enabled; the read
\*    callback runs only while EV_READ is enabled, after new bytes were added
\*    to the input buffer; the write callback runs only while EV_WRITE is
\*    enabled, when the output buffer has just been written out completely;
\*    an EOF/error met while reading (writing) disables EV_READ (EV_WRITE)
\*    before the event callback runs, and a write failure can only be met
\*    while there is output to write; nothing is called on a freed
\*    bufferevent.
\*  - libutp: after utp_close only the error callback and the DESTROYING
\*    state change can still be delivered for the socket; EOF is delivered
\*    once and no data is delivered after it or after utp_shutdown(SHUT_RD).
\*  - <assert.h>: a failed assert aborts the process (fault is set and no
\*    further step is taken).
EXTENDS Integers, Sequences, FiniteSets, TLC

\* ---------------------------------------------------------------- bounds
\* most bytes held by Transport B's input buffer, and by its output buffer
MaxIn == 4000
MaxOut == 3000
\* most utp_write calls made by one utp_bufferevent_flush
MaxCalls == 4
\* sizes of the reads libevent makes from Transport B's descriptor
BevReadSizes == {500, 1500, MaxIn}
\* sizes of the data events delivered by Transport A
UtpReadSizes == {1000, 3000, MaxOut}
\* what utp_write may answer: -1 error, 0 backpressure, otherwise the number
\* of bytes accepted, never more than was offered
WriteAnswers == {-1, 0, 500, 1500}

\* ------------------------------------------------------- program constants
\* MIN(1500, evbuffer_get_length(in))
ChunkMax == 1500

EV_READ == "EV_READ"
EV_WRITE == "EV_WRITE"
BEV_EVENT_READING == "READING"
BEV_EVENT_WRITING == "WRITING"
BEV_EVENT_EOF == "EOF"
BEV_EVENT_ERROR == "ERROR"
BEV_EVENT_CONNECTED == "CONNECTED"
UTP_STATE_CONNECT == "UTP_STATE_CONNECT"
UTP_STATE_WRITABLE == "UTP_STATE_WRITABLE"
UTP_STATE_EOF == "UTP_STATE_EOF"
UTP_STATE_DESTROYING == "UTP_STATE_DESTROYING"

VARIABLES
    \* the utp_bufferevent structure
    utp,                \* u->utp # NULL
    utp_read_shutdown,  \* u->utp_read_shutdown
    bev,                \* u->bev # NULL
    other_bev,          \* u->other_bev # NULL
    freed,              \* number of free(u) executed
    \* the bufferevent u->bev
    enabled,            \* bufferevent_get_enabled(u->bev)
    inLen,              \* evbuffer_get_length(bufferevent_get_input(u->bev))
    outLen,             \* evbuffer_get_length(bufferevent_get_output(u->bev))
    fdShutWr,           \* shutdown(fd, SHUT_WR) was done on bev's descriptor
    bevEof,             \* bev reported EOF while reading
    connecting,         \* bufferevent_socket_connect: "no", "pending", "failed"
    \* the utp socket
    userdata,           \* utp_get_userdata(socket) = u  (FALSE: NULL)
    utpCloses,          \* number of utp_close calls on the socket
    shutRd,             \* utp_shutdown(SHUT_RD) was called
    shutWr,             \* utp_shutdown(SHUT_WR) was called
    utpEof,             \* the socket delivered UTP_STATE_EOF
    utpConnected,       \* the socket delivered UTP_STATE_CONNECT
    utpDestroyed,       \* the socket delivered UTP_STATE_DESTROYING
    \* the bufferevent returned by utp_socket_create_bev
    otherRef,           \* its reference count
    otherEvents,        \* BEV_EVENT_CONNECTED notifications delivered to it
    \* execution
    fault,              \* "none", or how the process died
    cb,                 \* the callback (or factory) that ran last
    \* log of the last callback
    writes,             \* utp_write calls made: <<len offered, result>>
    flushIn,            \* input length when utp_bufferevent_flush started, -1: not run
    cleared,            \* input bytes thrown away by evbuffer_clear
    acks,               \* utp_read_drained calls made
    readLen,            \* a->len of utp_on_read, 0 in any other callback
    bevWrites           \* bufferevent_write calls made: the length of each

vars == <<utp, utp_read_shutdown, bev, other_bev, freed, enabled, inLen,
          outLen, fdShutWr, connecting, userdata, utpCloses, shutRd, shutWr,
          utpEof, utpConnected, utpDestroyed, otherRef, otherEvents, fault,
          cb, writes, flushIn, cleared, acks, bevEof, readLen, bevWrites>>

\* the state as one value, to thread through the C functions
S ==
    [utp |-> utp, utp_read_shutdown |-> utp_read_shutdown, bev |-> bev,
     other_bev |-> other_bev, freed |-> freed, enabled |-> enabled,
     inLen |-> inLen, outLen |-> outLen, fdShutWr |-> fdShutWr,
     connecting |-> connecting, userdata |-> userdata,
     utpCloses |-> utpCloses, shutRd |-> shutRd, shutWr |-> shutWr,
     utpEof |-> utpEof, utpConnected |-> utpConnected,
     utpDestroyed |-> utpDestroyed, otherRef |-> otherRef,
     otherEvents |-> otherEvents, fault |-> fault, cb |-> cb,
     writes |-> writes, flushIn |-> flushIn, cleared |-> cleared,
     acks |-> acks, bevEof |-> bevEof, readLen |-> readLen,
     bevWrites |-> bevWrites]

Set(t) ==
    /\ utp' = t.utp
    /\ utp_read_shutdown' = t.utp_read_shutdown
    /\ bev' = t.bev
    /\ other_bev' = t.other_bev
    /\ freed' = t.freed
    /\ enabled' = t.enabled
    /\ inLen' = t.inLen
    /\ outLen' = t.outLen
    /\ fdShutWr' = t.fdShutWr
    /\ connecting' = t.connecting
    /\ userdata' = t.userdata
    /\ utpCloses' = t.utpCloses
    /\ shutRd' = t.shutRd
    /\ shutWr' = t.shutWr
    /\ utpEof' = t.utpEof
    /\ utpConnected' = t.utpConnected
    /\ utpDestroyed' = t.utpDestroyed
    /\ otherRef' = t.otherRef
    /\ otherEvents' = t.otherEvents
    /\ fault' = t.fault
    /\ cb' = t.cb
    /\ writes' = t.writes
    /\ flushIn' = t.flushIn
    /\ cleared' = t.cleared
    /\ acks' = t.acks
    /\ bevEof' = t.bevEof
    /\ readLen' = t.readLen
    /\ bevWrites' = t.bevWrites

Min(a, b) == IF a < b THEN a ELSE b

\* ------------------------------------------------------------- execution
\* The process stops at the first fault; every function below returns the
\* state it was given once a fault is set.
Fail(s, f) == [s EXCEPT !.fault = f]

\* Use of the pointer u: undefined once the structure has been freed.
Deref(s) ==
    IF s.fault # "none" THEN s
    ELSE IF s.freed > 0 THEN Fail(s, "uaf")
    ELSE s

\* Use of u->utp by a libutp call: a NULL socket is dereferenced.
DerefUtp(s) ==
    LET t == Deref(s) IN
    IF t.fault # "none" THEN t
    ELSE IF ~t.utp THEN Fail(t, "null_utp")
    ELSE t

\* Use of u->bev by a libevent call: a NULL bufferevent is dereferenced.
DerefBev(s) ==
    LET t == Deref(s) IN
    IF t.fault # "none" THEN t
    ELSE IF ~t.bev THEN Fail(t, "null_bev")
    ELSE t

\* ------------------------------------------------------ lifecycle manager
\* variant: the test of line 31 written with && (frees with bev present)
ubev_cleanup_and(s) ==
    LET t == Deref(s) IN
    IF t.fault # "none" THEN t
    ELSE IF t.utp /\ t.bev THEN t
    ELSE [t EXCEPT !.freed = @ + 1]

ubev_cleanup(s) ==
    LET t == Deref(s) IN
    IF t.fault # "none" THEN t
    ELSE IF t.utp \/ t.bev THEN t
    ELSE [t EXCEPT !.freed = @ + 1]

\* variant: line 39 missing, the socket keeps its pointer to u
ubev_utp_close_keeps_userdata(s) ==
    LET t == DerefUtp(s) IN
    IF t.fault # "none" THEN t
    ELSE [t EXCEPT !.utpCloses = @ + 1,
                   !.utp = FALSE,
                   !.otherRef = IF t.other_bev THEN @ - 1 ELSE @,
                   !.other_bev = FALSE]

\* variant: closing the socket also resets utp_read_shutdown
ubev_utp_close_resets_flag(s) ==
    LET t == DerefUtp(s) IN
    IF t.fault # "none" THEN t
    ELSE [t EXCEPT !.userdata = FALSE,
                   !.utpCloses = @ + 1,
                   !.utp = FALSE,
                   !.utp_read_shutdown = FALSE,
                   !.otherRef = IF t.other_bev THEN @ - 1 ELSE @,
                   !.other_bev = FALSE]

ubev_utp_close(s) ==
    LET t == DerefUtp(s) IN
    IF t.fault # "none" THEN t
    ELSE [t EXCEPT !.userdata = FALSE,
                   !.utpCloses = @ + 1,
                   !.utp = FALSE,
                   !.otherRef = IF t.other_bev THEN @ - 1 ELSE @,
                   !.other_bev = FALSE]

ubev_bev_close(s) ==
    LET t == DerefBev(s) IN
    IF t.fault # "none" THEN t
    ELSE IF t.enabled # {} THEN Fail(t, "assert_enabled")
    ELSE IF t.inLen # 0 THEN Fail(t, "assert_input")
    ELSE IF t.outLen # 0 THEN Fail(t, "assert_output")
    ELSE [t EXCEPT !.bev = FALSE]

\* variant: line 62 missing, EV_READ stays enabled
ubev_bev_graceful_close_keeps_read(s) ==
    LET t == Deref(s) IN
    IF t.fault # "none" THEN t
    ELSE IF t.bev
         THEN LET a == [t EXCEPT !.cleared = @ + t.inLen,
                                 !.inLen = 0]
              IN IF a.outLen = 0
                 THEN ubev_cleanup(ubev_bev_close(
                          [a EXCEPT !.enabled = @ \ {EV_WRITE}]))
                 ELSE ubev_cleanup(a)
         ELSE ubev_cleanup(t)

ubev_bev_graceful_close(s) ==
    LET t == Deref(s) IN
    IF t.fault # "none" THEN t
    ELSE IF t.bev
         THEN LET a == [t EXCEPT !.cleared = @ + t.inLen,
                                 !.inLen = 0,
                                 !.enabled = @ \ {EV_READ}]
              IN IF a.outLen = 0
                 THEN ubev_cleanup(ubev_bev_close(
                          [a EXCEPT !.enabled = @ \ {EV_WRITE}]))
                 ELSE ubev_cleanup(a)
         ELSE ubev_cleanup(t)

\* ------------------------------------------------------------ flow engine
\* utp_shutdown(u->utp, how)
utp_shutdown(s, how) ==
    LET t == DerefUtp(s) IN
    IF t.fault # "none" THEN t
    ELSE IF how = "SHUT_RD" THEN [t EXCEPT !.shutRd = TRUE]
    ELSE [t EXCEPT !.shutWr = TRUE]

\* the result of utp_write(u->utp, buf, len) when the socket answers a
utp_write(a, len) == IF a < 0 THEN a ELSE Min(a, len)

\* variant: the MIN of line 76 missing, the whole buffer is offered
chunk_len_whole(n) == n

\* line 76: the size of the chunk offered when the input holds n bytes
chunk_len(n) == Min(ChunkMax, n)

\* variant: line 88 drains the chunk offered, not the r bytes accepted
evbuffer_drain_chunk(s, r) == [s EXCEPT !.inLen = @ - Min(ChunkMax, @)]

\* line 88: evbuffer_drain(in, r)
evbuffer_drain(s, r) == [s EXCEPT !.inLen = @ - r]

\* variant: the full close of lines 92-94 without ubev_utp_close
flush_tail_keeps_utp(s) ==
    LET t == DerefBev(s) IN
    IF t.fault # "none" THEN t
    ELSE IF EV_READ \notin t.enabled /\ t.inLen = 0
         THEN IF EV_WRITE \notin t.enabled
              THEN ubev_cleanup(ubev_bev_close(t))
              ELSE utp_shutdown(t, "SHUT_WR")
         ELSE t

\* lines 90-99: what flush does once its loop is over
flush_tail(s) ==
    LET t == DerefBev(s) IN
    IF t.fault # "none" THEN t
    ELSE IF EV_READ \notin t.enabled /\ t.inLen = 0
         THEN IF EV_WRITE \notin t.enabled
              THEN ubev_cleanup(ubev_bev_close(ubev_utp_close(t)))
              ELSE utp_shutdown(t, "SHUT_WR")
         ELSE t

\* lines 74-89: the loop, with n calls of utp_write left to make.  The
\* answer of each utp_write is the socket's choice, so the result is the set
\* of states the function can return in.
RECURSIVE flush_loop(_, _)
flush_loop(s, n) ==
    IF s.fault # "none" THEN {s}
    ELSE IF s.inLen = 0 THEN {flush_tail(s)}
    ELSE IF n = 0 THEN {}
    ELSE LET len == chunk_len(s.inLen)
             a == DerefUtp(s)
         IN IF a.fault # "none" THEN {a}
            ELSE UNION {
                LET r == utp_write(ans, len)
                    w == [a EXCEPT !.writes = Append(@, <<len, r>>)]
                IN IF r < 0
                   THEN {ubev_bev_graceful_close(ubev_utp_close(w))}
                   ELSE IF r = 0 THEN {flush_tail(w)}
                   ELSE flush_loop(evbuffer_drain(w, r), n - 1)
                : ans \in WriteAnswers}

utp_bufferevent_flush(s) ==
    LET t == DerefBev(s) IN
    IF t.fault # "none" THEN {t}
    ELSE flush_loop([t EXCEPT !.flushIn = t.inLen], MaxCalls)

ubev_bev_stop_writing(s) ==
    LET t == DerefBev(s) IN
    IF t.fault # "none" THEN {t}
    ELSE IF EV_READ \in t.enabled
         THEN {[t EXCEPT !.enabled = @ \ {EV_WRITE}, !.fdShutWr = TRUE]}
         ELSE IF t.inLen # 0 THEN {Fail(t, "assert_stop_writing")}
              ELSE utp_bufferevent_flush(t)

\* ------------------------------------------------- callbacks of the socket
\* u = utp_get_userdata(a->socket), then a use of u
DerefUserdata(s) ==
    IF s.fault # "none" THEN s
    ELSE IF ~s.userdata THEN Fail(s, "null_u")
    ELSE Deref(s)

utp_on_error(s) ==
    IF s.userdata
    THEN ubev_bev_graceful_close(ubev_utp_close(s))
    ELSE s

\* variant: bufferevent_write is given the data in pieces of at most 1500
utp_on_read_split(s, len) ==
    LET t == DerefUserdata(s) IN
    IF t.fault # "none" THEN t
    ELSE IF t.bev /\ EV_WRITE \in t.enabled
         THEN [t EXCEPT !.outLen = @ + len,
                        !.bevWrites = IF len > ChunkMax
                                      THEN @ \o <<ChunkMax, len - ChunkMax>>
                                      ELSE Append(@, len)]
         ELSE t

utp_on_read(s, len) ==
    LET t == DerefUserdata(s) IN
    IF t.fault # "none" THEN t
    ELSE IF t.bev /\ EV_WRITE \in t.enabled
         THEN [t EXCEPT !.outLen = @ + len,
                        !.bevWrites = Append(@, len)]
         ELSE t

\* variant: lines 154-156 missing, a writable socket does not restart flush
state_writable_idle(s) == {DerefUserdata(s)}

\* case UTP_STATE_WRITABLE (also reached by falling out of UTP_STATE_CONNECT)
state_writable(s) ==
    LET t == DerefUserdata(s) IN
    IF t.fault # "none" THEN {t}
    ELSE IF t.bev THEN utp_bufferevent_flush(t) ELSE {t}

\* variant: line 151 missing, u->other_bev is kept after its decref
state_connect_keeps_other(s) ==
    LET t == DerefUserdata(s) IN
    IF t.fault # "none" THEN {t}
    ELSE IF t.other_bev
         THEN UNION {state_writable([t EXCEPT !.otherEvents = @ + n,
                                              !.otherRef = @ - 1])
                     : n \in {0, 1}}
         ELSE state_writable(t)

\* variant: a break before case UTP_STATE_WRITABLE, no fall through
state_connect_break(s) ==
    LET t == DerefUserdata(s) IN
    IF t.fault # "none" THEN {t}
    ELSE IF t.other_bev
         THEN {[t EXCEPT !.otherEvents = @ + n,
                         !.otherRef = @ - 1,
                         !.other_bev = FALSE] : n \in {0, 1}}
         ELSE {t}

\* case UTP_STATE_CONNECT, which falls through to UTP_STATE_WRITABLE.  The
\* owner of other_bev may have set an event callback or not (line 147):
\* n notifications are delivered, n = 0 or 1.
state_connect(s) ==
    LET t == DerefUserdata(s) IN
    IF t.fault # "none" THEN {t}
    ELSE IF t.other_bev
         THEN UNION {state_writable([t EXCEPT !.otherEvents = @ + n,
                                              !.otherRef = @ - 1,
                                              !.other_bev = FALSE])
                     : n \in {0, 1}}
         ELSE state_writable(t)

state_eof(s) ==
    LET t == DerefUserdata(s) IN
    IF t.fault # "none" THEN {t}
    ELSE LET a == DerefBev([t EXCEPT !.utp_read_shutdown = TRUE]) IN
         IF a.fault # "none" THEN {a}
         ELSE IF a.outLen = 0 THEN ubev_bev_stop_writing(a) ELSE {a}

\* the set of states the callback can return in
utp_on_state_change(s, state) ==
    CASE state = UTP_STATE_CONNECT -> state_connect(s)
      [] state = UTP_STATE_WRITABLE -> state_writable(s)
      [] state = UTP_STATE_EOF -> state_eof(s)
      [] OTHER -> {s}

\* ------------------------------------------- callbacks of the bufferevent
\* the set of states the callback can return in
ubev_read_cb(s) ==
    LET t == Deref(s) IN
    IF t.fault # "none" THEN {t}
    ELSE IF ~t.utp THEN {Fail(t, "assert_read_cb")}
    ELSE utp_bufferevent_flush(t)

ubev_write_cb(s) ==
    LET t == DerefBev(s) IN
    IF t.fault # "none" THEN t
    ELSE IF t.outLen # 0 THEN Fail(t, "assert_write_cb")
    ELSE IF ~t.utp THEN ubev_cleanup(ubev_bev_close(t))
    ELSE [t EXCEPT !.acks = @ + 1]

\* lines 211-221
event_error(s) ==
    IF s.utp
    THEN LET t == DerefBev(s) IN
         IF t.fault # "none" THEN t
         ELSE IF t.inLen = 0
              THEN utp_shutdown([t EXCEPT !.utp_read_shutdown = TRUE],
                                "SHUT_RD")
              ELSE ubev_cleanup(ubev_bev_close(ubev_utp_close(t)))
    ELSE ubev_cleanup(ubev_bev_close(s))

\* lines 238-249
event_eof_reading(s) ==
    IF s.fault # "none" THEN s
    ELSE IF ~s.utp_read_shutdown THEN utp_shutdown(s, "SHUT_WR")
    ELSE LET t == DerefBev(ubev_utp_close(s)) IN
         IF t.fault # "none" THEN t
         ELSE IF t.outLen = 0 THEN ubev_cleanup(ubev_bev_close(t))
         ELSE t

\* lines 222-250
event_eof(s, events) ==
    IF BEV_EVENT_WRITING \in events
    THEN LET t == DerefBev(s) IN
         IF t.fault # "none" THEN t
         ELSE IF EV_READ \notin t.enabled
              THEN ubev_cleanup(ubev_bev_close(
                       IF t.utp THEN ubev_utp_close(t) ELSE t))
              ELSE LET a == IF t.utp
                            THEN utp_shutdown(
                                     [t EXCEPT !.utp_read_shutdown = TRUE],
                                     "SHUT_RD")
                            ELSE t
                       c == [a EXCEPT !.outLen = 0]
                   IN IF a.fault # "none" THEN a
                      ELSE IF BEV_EVENT_READING \in events
                      THEN event_eof_reading(c)
                      ELSE c
    ELSE IF BEV_EVENT_READING \in events THEN event_eof_reading(s)
    ELSE s

ubev_event_cb(s, events) ==
    LET t == Deref(s) IN
    IF t.fault # "none" THEN t
    ELSE IF ~t.bev THEN Fail(t, "assert_event_cb")
    ELSE IF BEV_EVENT_ERROR \in events THEN event_error(t)
    ELSE IF BEV_EVENT_EOF \in events THEN event_eof(t, events)
    ELSE t

\* -------------------------------------------------------------- factories
\* nothing allocated yet; the socket s exists and its userdata is NULL
Fresh ==
    [utp |-> FALSE, utp_read_shutdown |-> FALSE, bev |-> FALSE,
     other_bev |-> FALSE, freed |-> 0, enabled |-> {}, inLen |-> 0,
     outLen |-> 0, fdShutWr |-> FALSE, connecting |-> "no",
     userdata |-> FALSE, utpCloses |-> 0, shutRd |-> FALSE,
     shutWr |-> FALSE, utpEof |-> FALSE, utpConnected |-> FALSE,
     utpDestroyed |-> FALSE, otherRef |-> 0, otherEvents |-> 0,
     fault |-> "none", cb |-> "none", writes |-> <<>>,
     flushIn |-> -1, cleared |-> 0, acks |-> 0, bevEof |-> FALSE,
     readLen |-> 0, bevWrites |-> <<>>]

\* newOk: bufferevent_socket_new returned a bufferevent.  A NULL result of
\* the function is the state with freed = 1.
utp_bufferevent_new(s, newOk) ==
    LET a == [s EXCEPT !.utp = TRUE, !.userdata = TRUE, !.bev = newOk] IN
    IF ~newOk THEN ubev_cleanup(ubev_utp_close(a))
    ELSE [a EXCEPT !.enabled = {EV_WRITE, EV_READ}]

utp_socket_create_fd(s, newOk) ==
    [utp_bufferevent_new(s, newOk) EXCEPT !.cb = "utp_socket_create_fd"]

utp_socket_create_bev(s, newOk) ==
    LET u == utp_bufferevent_new(s, newOk) IN
    IF u.freed > 0 THEN [u EXCEPT !.cb = "utp_socket_create_bev"]
    ELSE [u EXCEPT !.other_bev = TRUE, !.otherRef = 2,
                   !.cb = "utp_socket_create_bev"]

\* connectOk: bufferevent_socket_connect did not return < 0
utp_connect_tcp(s, newOk, connectOk) ==
    LET u == [utp_bufferevent_new(s, newOk) EXCEPT !.cb = "utp_connect_tcp"]
    IN IF u.freed > 0 THEN Fail(u, "null_u")
       ELSE IF ~connectOk
            THEN ubev_cleanup(ubev_utp_close(
                     [u EXCEPT !.bev = FALSE, !.enabled = {}]))
            ELSE [u EXCEPT !.connecting = "pending"]

InitStates ==
    {[t EXCEPT !.utpConnected = c] :
        t \in {utp_socket_create_fd(Fresh, ok) : ok \in BOOLEAN}
              \cup {utp_socket_create_bev(Fresh, ok) : ok \in BOOLEAN}
              \cup {utp_connect_tcp(Fresh, ok, k) : ok, k \in BOOLEAN},
        c \in BOOLEAN}

Init ==
    \E t \in InitStates :
        /\ utp = t.utp
        /\ utp_read_shutdown = t.utp_read_shutdown
        /\ bev = t.bev
        /\ other_bev = t.other_bev
        /\ freed = t.freed
        /\ enabled = t.enabled
        /\ inLen = t.inLen
        /\ outLen = t.outLen
        /\ fdShutWr = t.fdShutWr
        /\ connecting = t.connecting
        /\ userdata = t.userdata
        /\ utpCloses = t.utpCloses
        /\ shutRd = t.shutRd
        /\ shutWr = t.shutWr
        /\ utpEof = t.utpEof
        /\ utpConnected = t.utpConnected
        /\ utpDestroyed = t.utpDestroyed
        /\ otherRef = t.otherRef
        /\ otherEvents = t.otherEvents
        /\ fault = t.fault
        /\ cb = t.cb
        /\ writes = t.writes
        /\ flushIn = t.flushIn
        /\ cleared = t.cleared
        /\ acks = t.acks
        /\ bevEof = t.bevEof
        /\ readLen = t.readLen
        /\ bevWrites = t.bevWrites

\* ---------------------------------------------------------------- actions
\* entry of a callback: the log of the last callback is reset
Begin(name) ==
    [S EXCEPT !.cb = name, !.writes = <<>>, !.flushIn = -1, !.cleared = 0,
              !.acks = 0, !.readLen = 0, !.bevWrites = <<>>]

Running == fault = "none"
UtpOpen == utpCloses = 0

OnError ==
    /\ Running
    /\ ~utpDestroyed
    /\ Set(utp_on_error(Begin("utp_on_error")))

OnRead ==
    /\ Running
    /\ UtpOpen /\ utpConnected /\ ~utpEof /\ ~shutRd
    /\ \E len \in UtpReadSizes :
        /\ (bev /\ EV_WRITE \in enabled) => outLen + len <= MaxOut
        /\ Set(utp_on_read([Begin("utp_on_read") EXCEPT !.readLen = len],
                            len))

StateConnect ==
    /\ Running
    /\ UtpOpen /\ ~utpConnected
    /\ \E t \in utp_on_state_change(
                    [Begin(UTP_STATE_CONNECT) EXCEPT !.utpConnected = TRUE],
                    UTP_STATE_CONNECT) : Set(t)

StateWritable ==
    /\ Running
    /\ UtpOpen /\ utpConnected
    /\ \E t \in utp_on_state_change(Begin(UTP_STATE_WRITABLE),
                                    UTP_STATE_WRITABLE) : Set(t)

StateEof ==
    /\ Running
    /\ UtpOpen /\ utpConnected /\ ~utpEof
    /\ \E t \in utp_on_state_change(
                    [Begin(UTP_STATE_EOF) EXCEPT !.utpEof = TRUE],
                    UTP_STATE_EOF) : Set(t)

StateDestroying ==
    /\ Running
    /\ ~UtpOpen /\ ~utpDestroyed
    /\ \E t \in utp_on_state_change(
                    [Begin(UTP_STATE_DESTROYING)
                        EXCEPT !.utpDestroyed = TRUE],
                    UTP_STATE_DESTROYING) : Set(t)

\* libevent read len bytes into the input buffer and calls the read callback
ReadCb ==
    /\ Running
    /\ bev /\ EV_READ \in enabled /\ connecting = "no"
    /\ \E len \in BevReadSizes :
        /\ inLen + len <= MaxIn
        /\ \E t \in ubev_read_cb(
                        [Begin("ubev_read_cb") EXCEPT !.inLen = @ + len]) :
               Set(t)

\* libevent wrote the whole output buffer and calls the write callback
WriteCb ==
    /\ Running
    /\ bev /\ EV_WRITE \in enabled /\ connecting = "no" /\ outLen > 0
    /\ Set(ubev_write_cb([Begin("ubev_write_cb") EXCEPT !.outLen = 0]))

\* libevent met EOF or an error while reading
EventReading ==
    /\ Running
    /\ bev /\ EV_READ \in enabled /\ connecting = "no"
    /\ \E what \in {BEV_EVENT_EOF, BEV_EVENT_ERROR} :
        Set(ubev_event_cb(
                [Begin(IF what = BEV_EVENT_EOF THEN "EOF|READING"
                       ELSE "ERROR|READING")
                    EXCEPT !.enabled = @ \ {EV_READ},
                           !.bevEof = @ \/ what = BEV_EVENT_EOF],
                {what, BEV_EVENT_READING}))

\* libevent met EOF or an error while writing the output buffer
EventWriting ==
    /\ Running
    /\ bev /\ EV_WRITE \in enabled /\ connecting # "pending" /\ outLen > 0
    /\ \E what \in {BEV_EVENT_EOF, BEV_EVENT_ERROR} :
        Set(ubev_event_cb(
                [Begin(IF what = BEV_EVENT_EOF THEN "EOF|WRITING"
                       ELSE "ERROR|WRITING")
                    EXCEPT !.enabled = @ \ {EV_WRITE}],
                {what, BEV_EVENT_WRITING}))

\* the outcome of bufferevent_socket_connect
EventConnect ==
    /\ Running
    /\ bev /\ connecting = "pending"
    /\ \E what \in {BEV_EVENT_CONNECTED, BEV_EVENT_ERROR} :
        Set(ubev_event_cb(
                [Begin(what)
                    EXCEPT !.connecting = IF what = BEV_EVENT_ERROR
                                          THEN "failed" ELSE "no"],
                {what}))

Next ==
    \/ OnError
    \/ OnRead
    \/ StateConnect
    \/ StateWritable
    \/ StateEof
    \/ StateDestroying
    \/ ReadCb
    \/ WriteCb
    \/ EventReading
    \/ EventWriting
    \/ EventConnect

Spec == Init /\ [][Next]_vars

\* ================================================================ claims

\* C1: on every path into ubev_bev_close, Transport B has read and write
\* disabled and both buffers empty, i.e. none of the three assertions of
\* ubev_bev_close (lines 51-53) ever fails.
C1_CloseAssertionsHold ==
    fault \notin {"assert_enabled", "assert_input", "assert_output"}

\* C2: at every callback boundary the Bridge has been freed if and only if
\* both transportA (utp) and transportB (bev) are absent.
C2_FreedIffBothAbsent ==
    fault = "none" => ((freed > 0) <=> (~utp /\ ~bev))

\* a callback that cleared the last handle has returned and freed the Bridge
C2_Witness ==
    /\ cb = "utp_on_error"
    /\ fault = "none"
    /\ freed = 1
    /\ ~utp /\ ~bev

\* C3: the Bridge is freed at most once, and once it is freed neither the
\* rest of the callback that freed it nor any later callback of either
\* transport uses the structure.
C3_FreedOnceNeverUsedAfter ==
    /\ freed <= 1
    /\ fault # "uaf"

\* a callback of Transport A has run after the Bridge was freed
C3_Witness ==
    /\ cb = UTP_STATE_DESTROYING
    /\ freed = 1
    /\ fault = "none"

\* C4: no callback issues an operation on a transport whose handle is
\* absent: no libutp call is made with u->utp NULL and no libevent call with
\* u->bev NULL.
C4_NoOperationOnAbsentHandle ==
    fault \notin {"null_utp", "null_bev"}

\* the end-of-stream-while-reading branch ran with utp_read_shutdown set
\* and closed Transport A without testing its presence
C4_Witness ==
    /\ cb = "EOF|READING"
    /\ fault = "none"
    /\ utp_read_shutdown
    /\ utpCloses = 1
    /\ ~utp

\* ------------------------------------------- the log of utp_write calls
\* bytes accepted by the calls of the log w
RECURSIVE SumAccepted(_)
SumAccepted(w) ==
    IF w = <<>> THEN 0
    ELSE (IF Head(w)[2] > 0 THEN Head(w)[2] ELSE 0) + SumAccepted(Tail(w))

\* bytes of the input buffer not yet accepted when call i of the last flush
\* is made (i = Len(writes) + 1: when the loop is over)
Rem(i) == flushIn - SumAccepted(SubSeq(writes, 1, i - 1))

Refused == \E i \in 1..Len(writes) : writes[i][2] < 0

\* C5 as stated: whatever utp_write answers, when flush returns every byte
\* that was in the input buffer when it started has been accepted by
\* utp_write or is still in the input buffer.
C5_NoByteLost ==
    (flushIn >= 0 /\ fault = "none") =>
        flushIn = SumAccepted(writes) + inLen

\* C5 amended: as long as utp_write answers >= 0, every byte that was in the
\* input buffer when flush started is accepted or still there when flush
\* returns; when utp_write answers < 0, flush throws away exactly the bytes
\* not accepted so far (graceful close of Transport B).
C5_NoByteLostUnlessRefused ==
    (flushIn >= 0 /\ fault = "none") =>
        IF Refused
        THEN inLen = 0 /\ cleared = flushIn - SumAccepted(writes)
        ELSE flushIn = SumAccepted(writes) + inLen /\ cleared = 0

\* flush of 4000 bytes: one chunk accepted, the next met backpressure
C5_Witness ==
    /\ cb = "ubev_read_cb"
    /\ fault = "none"
    /\ flushIn = 4000
    /\ writes = << <<1500, 1500>>, <<1500, 0>> >>
    /\ inLen = 2500

\* C6: utp_read_shutdown (readSuspended) is monotonic: no step of any
\* callback takes it from true back to false.
C6_ReadShutdownMonotonic ==
    [][utp_read_shutdown => utp_read_shutdown']_vars

\* the flag was set and Transport A was closed afterwards
C6_Witness ==
    /\ utp_read_shutdown
    /\ utpEof
    /\ utpCloses = 1
    /\ fault = "none"

\* C7: when Transport A signals EOF with Transport B's output buffer
\* non-empty, utp_read_shutdown becomes true and EV_WRITE stays enabled; and
\* when that output then drains (write callback with Transport A present),
\* the deferred half-close is carried out: EV_WRITE is disabled.
C7_DeferredHalfClose ==
    [][/\ (cb' = UTP_STATE_EOF /\ bev /\ outLen > 0) =>
            /\ utp_read_shutdown'
            /\ enabled' = enabled
       /\ (/\ cb' = "ubev_write_cb"
           /\ utpEof /\ utp_read_shutdown
           /\ utp' /\ fault' = "none") =>
            EV_WRITE \notin enabled']_vars

\* C8: whenever Transport B reports EOF while writing and its read side is
\* already disabled, the callback ends with Transport A absent, Transport B
\* absent and the Bridge freed.
C8_EofWritingTearsDown ==
    [][(cb' = "EOF|WRITING" /\ EV_READ \notin enabled) =>
            /\ fault' = "none"
            /\ ~utp' /\ ~bev'
            /\ freed' = 1]_vars

\* C9: flush offers the input buffer to utp_write in order, in chunks of
\* min(1500, remaining) bytes and never more than 1500; a call that accepts
\* r > 0 bytes consumes exactly r and the loop goes on with the rest; when
\* every chunk is accepted in full there are ceil(n / 1500) calls and the
\* input buffer ends empty.
C9_Chunking ==
    flushIn >= 0 =>
        LET n == Len(writes) IN
        /\ \A i \in 1..n :
            /\ Rem(i) > 0
            /\ writes[i][1] = Min(1500, Rem(i))
            /\ writes[i][1] <= 1500
            /\ i < n => writes[i][2] > 0
        /\ (n > 0 /\ writes[n][2] > 0) => Rem(n + 1) = 0
        /\ ~Refused => inLen = Rem(n + 1)
        /\ (\A i \in 1..n : writes[i][2] = writes[i][1]) =>
            /\ n = (flushIn + 1499) \div 1500
            /\ inLen = 0

\* 4000 bytes accepted in full: three calls of 1500, 1500 and 1000 bytes
C9_Witness ==
    /\ flushIn = 4000
    /\ writes = << <<1500, 1500>>, <<1500, 1500>>, <<1000, 1000>> >>
    /\ inLen = 0

\* a positive result smaller than the chunk: 500 of 1500 accepted, the
\* next call offers the remaining 1000
C9_WitnessPartial ==
    /\ flushIn = 1500
    /\ writes = << <<1500, 500>>, <<1000, 1000>> >>
    /\ inLen = 0

\* C10: when utp_write answers 0, flush stops without consuming the refused
\* chunk: the input buffer is what it was before that call, neither
\* transport is closed, the Bridge is not freed; and the next writable
\* notification offers the same bytes again.
C10_Backpressure ==
    [][/\ (/\ flushIn' >= 0
           /\ writes' # <<>>
           /\ writes'[Len(writes')][2] = 0) =>
            /\ fault' = "none"
            /\ inLen' = flushIn' - SumAccepted(writes')
            /\ inLen' > 0
            /\ cleared' = 0
            /\ utp' /\ bev' /\ freed' = 0 /\ utpCloses' = 0
       /\ (/\ cb' \in {UTP_STATE_WRITABLE, UTP_STATE_CONNECT}
           /\ bev /\ inLen > 0) =>
            /\ writes' # <<>>
            /\ writes'[1][1] = Min(1500, inLen)]_vars

\* the first call of a flush of 1500 bytes met backpressure
C10_Witness ==
    /\ cb = "ubev_read_cb"
    /\ fault = "none"
    /\ flushIn = 1500
    /\ writes = << <<1500, 0>> >>
    /\ inLen = 1500

\* ----------------------------------------------- utp_on_read on its own
\* the variables hold the state t
Is(t) ==
    /\ utp = t.utp
    /\ utp_read_shutdown = t.utp_read_shutdown
    /\ bev = t.bev
    /\ other_bev = t.other_bev
    /\ freed = t.freed
    /\ enabled = t.enabled
    /\ inLen = t.inLen
    /\ outLen = t.outLen
    /\ fdShutWr = t.fdShutWr
    /\ connecting = t.connecting
    /\ userdata = t.userdata
    /\ utpCloses = t.utpCloses
    /\ shutRd = t.shutRd
    /\ shutWr = t.shutWr
    /\ utpEof = t.utpEof
    /\ utpConnected = t.utpConnected
    /\ utpDestroyed = t.utpDestroyed
    /\ otherRef = t.otherRef
    /\ otherEvents = t.otherEvents
    /\ fault = t.fault
    /\ cb = t.cb
    /\ writes = t.writes
    /\ flushIn = t.flushIn
    /\ cleared = t.cleared
    /\ acks = t.acks
    /\ bevEof = t.bevEof
    /\ readLen = t.readLen
    /\ bevWrites = t.bevWrites

\* utp_on_read reads u->bev and the bufferevent's enabled set: the callback
\* is applied once in every combination of them, whatever the socket did
\* before (a live Bridge whose socket still points to it).
OnReadInit ==
    \E b, f \in BOOLEAN, e \in SUBSET {EV_READ, EV_WRITE},
       i \in {0} \cup BevReadSizes, o \in {0} \cup UtpReadSizes :
        Is([Fresh EXCEPT !.utp = TRUE, !.userdata = TRUE,
                         !.utpConnected = TRUE,
                         !.utp_read_shutdown = f,
                         !.bev = b,
                         !.enabled = IF b THEN e ELSE {},
                         !.inLen = IF b THEN i ELSE 0,
                         !.outLen = IF b THEN o ELSE 0])

OnReadAny ==
    /\ cb = "none"
    /\ \E len \in UtpReadSizes :
        Set(utp_on_read([Begin("utp_on_read") EXCEPT !.readLen = len], len))

OnReadNext == OnReadAny

OnReadSpec == OnReadInit /\ [][OnReadNext]_vars

\* C11: on data from Transport A (utp_on_read with k bytes): if bev is
\* present and EV_WRITE enabled, exactly those k bytes are appended to the
\* output buffer by one bufferevent_write; otherwise the output buffer is
\* unchanged.  No handle, flag or other buffer of the Bridge changes.
C11_OnReadForwardsUnsplit ==
    [][cb' = "utp_on_read" =>
        /\ fault' = "none"
        /\ IF bev /\ EV_WRITE \in enabled
           THEN outLen' = outLen + readLen' /\ bevWrites' = <<readLen'>>
           ELSE outLen' = outLen /\ bevWrites' = <<>>
        /\ UNCHANGED <<utp, bev, other_bev, freed, utp_read_shutdown,
                       enabled, inLen, fdShutWr, userdata, utpCloses,
                       shutRd, shutWr, otherRef, otherEvents>>]_vars

\* 3000 bytes delivered in one event went to the output buffer in one piece
C11_Witness ==
    /\ cb = "utp_on_read"
    /\ fault = "none"
    /\ readLen = 3000
    /\ bevWrites = <<3000>>
    /\ outLen = 3000

\* data delivered while EV_WRITE is disabled was dropped
C11_WitnessDropped ==
    /\ cb = "utp_on_read"
    /\ fault = "none"
    /\ bev /\ EV_WRITE \notin enabled
    /\ readLen = 3000
    /\ bevWrites = <<>>
    /\ outLen = 1000

\* C12: the Bridge's reference to other_bev (peerEndpoint) is released
\* exactly once: by UTP_STATE_CONNECT or by ubev_utp_close, whichever comes
\* first, never by both, and it has been released by the time the Bridge is
\* freed; the connected notification is delivered at most once, and only
\* while the reference is still held.
C12_PeerReleasedOnce ==
    [][/\ otherRef' # otherRef =>
            /\ other_bev /\ ~other_bev'
            /\ otherRef = 2 /\ otherRef' = 1
            /\ cb' = UTP_STATE_CONNECT \/ utpCloses' = utpCloses + 1
       /\ other_bev' # other_bev => otherRef' # otherRef
       /\ otherEvents' # otherEvents =>
            /\ other_bev /\ ~other_bev'
            /\ otherEvents = 0 /\ otherEvents' = 1
            /\ cb' = UTP_STATE_CONNECT
       /\ (freed' > 0 /\ fault' = "none") => ~other_bev']_vars

\* released at UTP_STATE_CONNECT with the notification delivered, and not
\* released again when the socket was closed and the Bridge freed
C12_Witness ==
    /\ otherEvents = 1
    /\ otherRef = 1
    /\ ~other_bev
    /\ utpCloses = 1
    /\ freed = 1
    /\ fault = "none"

\* what UTP_STATE_CONNECT does to other_bev in every case: one release and
\* at most one notification when it is held, nothing otherwise
ConnectReleases ==
    IF other_bev
    THEN /\ ~other_bev'
         /\ otherRef' = otherRef - 1
         /\ otherEvents' \in {otherEvents, otherEvents + 1}
    ELSE UNCHANGED <<other_bev, otherRef, otherEvents>>

\* C13 as stated: when Transport A reaches the connected state the only
\* effects are the notification and the release of other_bev; both handles,
\* utp_read_shutdown, both buffers of Transport B and Transport A's send
\* side are left as they were.
C13_ConnectOnlyNotifies ==
    [][cb' = UTP_STATE_CONNECT =>
        /\ fault' = "none"
        /\ ConnectReleases
        /\ writes' = <<>>
        /\ UNCHANGED <<utp, bev, freed, utp_read_shutdown, enabled, inLen,
                       outLen, shutWr, utpCloses>>]_vars

\* C13 amended: when Transport A reaches the connected state the handler
\* notifies and releases other_bev if it is held and then goes on as for
\* the writable event: it runs flush if and only if bev is present.  It is
\* a no-op on the handles, the enabled set, the input buffer and the send
\* side only when flush has nothing to do (input empty, EV_READ enabled);
\* utp_read_shutdown and the output buffer never change.
C13_ConnectThenFlush ==
    [][cb' = UTP_STATE_CONNECT =>
        /\ ConnectReleases
        /\ flushIn' = IF bev THEN inLen ELSE -1
        /\ UNCHANGED <<utp_read_shutdown, outLen>>
        /\ (bev /\ inLen = 0 /\ EV_READ \in enabled) =>
            /\ fault' = "none"
            /\ writes' = <<>>
            /\ UNCHANGED <<utp, bev, freed, enabled, inLen, shutWr,
                           utpCloses>>]_vars

\* no paired endpoint, input left over from before the connection: the
\* connected event offered it to utp_write
C13_Witness ==
    /\ cb = UTP_STATE_CONNECT
    /\ fault = "none"
    /\ otherRef = 0
    /\ flushIn = 1500
    /\ writes = << <<1500, 1500>> >>
    /\ inLen = 0

\* the callback ran for a fatal error of Transport B
ErrorEvent == cb' \in {"ERROR|READING", "ERROR|WRITING", BEV_EVENT_ERROR}

\* C14: on a fatal error of Transport B: if Transport A is present and the
\* input buffer is empty, the handler only sets utp_read_shutdown and
\* half-closes Transport A's receive side, both handles stay and the Bridge
\* lives; in every other case it closes Transport A if present, closes
\* Transport B and frees the Bridge.
C14_ErrorEvent ==
    [][ErrorEvent =>
        /\ fault' = "none"
        /\ IF utp /\ inLen = 0
           THEN /\ utp_read_shutdown' /\ shutRd'
                /\ utp' /\ bev' /\ freed' = 0
                /\ UNCHANGED <<inLen, outLen, userdata, utpCloses, shutWr,
                               other_bev, otherRef>>
           ELSE ~utp' /\ ~bev' /\ freed' = 1]_vars

\* the step is a fatal failure of Transport A: the error callback of a
\* socket that still points to the Bridge, or utp_write answering < 0
FatalA == (cb' = "utp_on_error" /\ userdata) \/ Refused'

\* C15: a fatal failure of Transport A closes Transport A and gracefully
\* closes Transport B: afterwards utp is absent; if the output buffer was
\* empty, Transport B is closed and the Bridge freed in the same step;
\* otherwise Transport B stays, its input discarded and EV_READ disabled,
\* its output intact and EV_WRITE enabled until the buffer drains.
C15_FatalAGracefulClose ==
    [][FatalA =>
        /\ fault' = "none"
        /\ ~utp' /\ utpCloses' = utpCloses + 1
        /\ IF outLen = 0
           THEN ~bev' /\ freed' = 1
           ELSE /\ bev' /\ freed' = 0
                /\ inLen' = 0 /\ EV_READ \notin enabled'
                /\ outLen' = outLen
                /\ EV_WRITE \in enabled']_vars

\* C16: when Transport B reports end-of-stream while reading: with
\* utp_read_shutdown false the only thing done is utp_shutdown(SHUT_WR), both
\* handles stay; with utp_read_shutdown true Transport A is closed, and
\* Transport B is closed and the Bridge freed exactly when the output buffer
\* is empty, Transport B staying untouched otherwise.
C16_EofReading ==
    [][cb' = "EOF|READING" =>
        /\ fault' = "none"
        /\ IF ~utp_read_shutdown
           THEN /\ shutWr' /\ utp' /\ bev' /\ freed' = 0
                /\ utpCloses' = utpCloses
                /\ inLen' = inLen /\ outLen' = outLen
                /\ enabled' = enabled \ {EV_READ}
                /\ shutRd' = shutRd /\ utp_read_shutdown' = utp_read_shutdown
           ELSE /\ ~utp'
                /\ IF outLen = 0
                   THEN ~bev' /\ freed' = 1
                   ELSE bev' /\ freed' = 0 /\ outLen' = outLen]_vars

\* UTP_STATE_EOF delivered with the output buffer of Transport B empty
RemoteEofDrained == cb' = "UTP_STATE_EOF" /\ outLen = 0

\* C17: when Transport A signals remote end-of-stream and the output buffer
\* of Transport B is empty: with EV_READ enabled, EV_WRITE is disabled and
\* the write side of the descriptor shut down, both handles staying; with
\* EV_READ disabled as well, Transport A and Transport B are both closed and
\* the Bridge is freed.
C17_RemoteEofStopsWriting ==
    [][RemoteEofDrained =>
        /\ fault' = "none"
        /\ utp_read_shutdown'
        /\ IF EV_READ \in enabled
           THEN /\ enabled' = {EV_READ} /\ fdShutWr'
                /\ utp' /\ bev' /\ freed' = 0
           ELSE ~utp' /\ ~bev' /\ freed' = 1]_vars

\* libutp delivers UTP_STATE_DESTROYING once utp_close has been called.
\* Data, writability, errors and end-of-stream depend on the peers and carry
\* no fairness.
LiveSpec == Spec /\ WF_vars(StateDestroying)

\* both end-of-stream events have arrived and both buffers of Transport B
\* are empty
BothEofDrained ==
    /\ fault = "none"
    /\ utpEof /\ bevEof
    /\ inLen = 0 /\ outLen = 0

\* C18: once Transport A has signalled remote end-of-stream, Transport B has
\* reported end-of-stream while reading and both buffers of Transport B are
\* empty, the Bridge is eventually freed with both handles absent, whichever
\* end-of-stream came first.
C18_BothEofTearDown == BothEofDrained ~> (freed = 1 /\ ~utp /\ ~bev)

\* C19: utp_shutdown(SHUT_WR) takes effect only in states where the input
\* buffer of Transport B is empty, at the end of flush as well as on
\* end-of-stream of Transport B while reading.
C19_HalfCloseOnlyWhenInputEmpty ==
    [][(shutWr' /\ ~shutWr) => inLen' = 0]_vars

\* C20: between callbacks of a Bridge that has not aborted, Transport B absent
\* implies Transport A absent, and Transport A absent with Transport B
\* present implies EV_READ disabled; so the assert of ubev_read_cb never
\* fails and no callback uses u->bev while it is NULL.
C20_HandleOrder ==
    /\ fault \notin {"assert_read_cb", "null_bev"}
    /\ fault = "none" =>
        /\ ~bev => ~utp
        /\ (~utp /\ bev) => EV_READ \notin enabled

\* Transport A closed by utp_on_error with Transport B kept for its output
C20_Witness ==
    /\ fault = "none" /\ cb = "utp_on_error"
    /\ ~utp /\ bev /\ EV_READ \notin enabled /\ outLen > 0
====
